---- MODULE Spec2Model ----
(***************************************************************************)
(* Model of the Pusad Local Services marketplace front-end.                *)
(*                                                                         *)
(* The repository holds three iterations of the marketplace App component: *)
(*   part_000  list/detail browser (src/unnamed/part_000)                  *)
(*   part_001  adds the booking modal (src/unnamed/part_001, lines 1-244)  *)
(*   App       adds Easy Auth and the bookings POST (src/src/App.js)       *)
(* The variable `variant` fixes which iteration the page has loaded.       *)
(*                                                                         *)
(* The second half of src/unnamed/part_001 (lines 246-592) is a different  *)
(* application, the collaborative whiteboard.  Its state is the tuple      *)
(* `whiteboard`; it has its own specification WbSpec, under which the      *)
(* marketplace state stays unloaded, and under Spec the whiteboard state   *)
(* stays unloaded.                                                         *)
(*                                                                         *)
(* JavaScript null/undefined is modelled as the empty sequence <<>> and a  *)
(* present value v as <<v>>.                                               *)
(***************************************************************************)
EXTENDS Integers, Sequences, FiniteSets, TLC

\* ------------------------------------------------------------------ bounds
MaxRecords == 2      \* longest professionals array the backend answers with
MaxConfirms == 2     \* cap on counted invocations of the confirm handler

\* ----------------------------------------------------------- value domains
None == <<>>
Some(v) == <<v>>
TruthyNum(o) == o # None /\ o[1] # 0      \* JS truthiness of a number or null
TruthyStr(o) == o # None /\ o[1] # ""     \* JS truthiness of a string or null

Variants == {"part_000", "part_001", "App"}
HasModal(v) == v \in {"part_001", "App"}

\* Ratings are hundredths of a star; only multiples of 0.25 are used, which
\* are exact in binary floating point, so toFixed rounds them half up.
RatingValues == {None, Some(0), Some(25), Some(475)}
ProfessionalIDs == {1, 2}
Professionals == [ProfessionalID : ProfessionalIDs, Rating : RatingValues]

RECURSIVE SeqsUpTo(_, _)
SeqsUpTo(S, n) ==
    IF n = 0 THEN {<<>>}
    ELSE LET shorter == SeqsUpTo(S, n - 1)
         IN shorter \cup {Append(s, x) : s \in {t \in shorter : Len(t) = n - 1}, x \in S}

\* Outcomes of GET /api/professionals.  kind:
\*   "network"   fetch rejects            "status"  response.ok is false
\*   "malformed" response.json() rejects  "object"  JSON body that is no array
\*   "array"     JSON array of Professional records (items)
ProfResponses ==
    {[kind |-> k, items |-> <<>>] : k \in {"network", "status", "malformed", "object"}}
    \cup {[kind |-> "array", items |-> s] : s \in SeqsUpTo(Professionals, MaxRecords)}

\* Outcomes of GET /.auth/me.  An "object" body carries its own fields in
\* items[1]; an "array" body has the session entries as items.
ClaimLists ==
    { <<>>,
      <<[typ |-> "name", val |-> "Asha"]>>,
      <<[typ |-> "email", val |-> "a@x"], [typ |-> "preferred_username", val |-> "asha@x"]>>,
      <<[typ |-> "preferred_username", val |-> "asha@x"], [typ |-> "name", val |-> "Asha"]>> }
SessionEntries == [user_id : {None, Some("u1")}, user_claims : ClaimLists]
MeResponses ==
    {[kind |-> k, items |-> <<>>] : k \in {"network", "status", "malformed"}}
    \cup {[kind |-> "object", items |-> <<e>>] : e \in {x \in SessionEntries : x.user_id # None /\ x.user_claims = <<>>}}
    \cup {[kind |-> "array", items |-> <<>>]}
    \cup {[kind |-> "array", items |-> <<e>>] : e \in SessionEntries}

FieldValues == {"", "x"}

VARIABLES
    variant,               \* which iteration of App is loaded
    profResponse,          \* what the backend answers to GET /api/professionals
    meResponse,            \* what the backend answers to GET /.auth/me
    professionals,         \* useState([])      [isArray, items]
    selectedProfessional,  \* useState(null)
    isBooking,             \* useState(false)
    isLoading,             \* useState(true)
    error,                 \* useState(null)
    user,                  \* useState(null)
    fetchPc,               \* position of fetchProfessionals
    authPc,                \* position of checkUserAuth
    location,              \* window.location: "app" or "login"
    address,               \* BookingModal useState('')
    dateTime,              \* BookingModal useState('')
    getCount,              \* GET /api/professionals requests issued
    postCount,             \* POST /api/bookings requests issued
    confirmCalls,          \* invocations of handleConfirmBooking
    bookingsInFlight,      \* POST /api/bookings requests awaiting their response
    lastOp,                \* name of the handler that ran last
    listAtSelect           \* professionals as they were at the last Select

\* State of the whiteboard App and of the services it talks to.
VARIABLES
    firebaseConfig,        \* __firebase_config: "present", "absent" or "invalid"
    initialUser,           \* the user the auth SDK restores on load, or null
    signInOutcome,         \* how the sign-in attempt ends: "ok" or "fail"
    wbPc,                  \* position of the initialization effect
    signInPc,              \* position of the onAuthStateChanged callback
    authEvents,            \* onAuthStateChanged notifications not yet delivered
    db,                    \* useState(null): TRUE once setDb(firestore) ran
    userId,                \* useState(null)
    authError,             \* useState(null)
    isAuthReady,           \* useState(false)
    tool,                  \* useState('pen')
    color,                 \* useState('#000000')
    isDrawing,             \* useState(false)
    drawing,               \* useState(null): the element being drawn
    elements,              \* useState([]): the synced elements
    remote,                \* documents of the drawings collection on the server
    writes,                \* setDoc calls awaiting their outcome
    deletes,               \* deleteDoc calls awaiting their outcome
    snapshotDue,           \* the listener has a snapshot to deliver
    now,                   \* Date.now() of the client
    serverClock,           \* last timestamp the server assigned
    gestures,              \* pointer-downs that created an element
    remoteWrites,          \* documents written by the other author
    clears,                \* confirmed clear-all requests
    trace,                 \* pointer positions of the current gesture, in order
    wbOp                   \* what the last whiteboard step did

whiteboard == <<firebaseConfig, initialUser, signInOutcome, wbPc, signInPc, authEvents,
                db, userId, authError, isAuthReady, tool, color, isDrawing, drawing,
                elements, remote, writes, deletes, snapshotDue, now, serverClock,
                gestures, remoteWrites, clears, trace, wbOp>>

marketplace == <<variant, profResponse, meResponse, professionals, selectedProfessional,
                 isBooking, isLoading, error, user, fetchPc, authPc, location, address,
                 dateTime, getCount, postCount, confirmCalls, bookingsInFlight, lastOp,
                 listAtSelect>>

vars == <<marketplace, whiteboard>>

\* Everything a marketplace handler never touches.
env == <<variant, profResponse, meResponse, whiteboard>>
form == <<address, dateTime>>
counters == <<getCount, postCount, confirmCalls, bookingsInFlight>>
view == <<professionals, selectedProfessional, isBooking, isLoading, error>>

\* ------------------------------------------------------------ pure helpers

\* Number.prototype.toFixed(1) on r/100: the nearest tenth, ties upward.
ToFixed1(r) ==
    LET tenths == (r + 5) \div 10
    IN [kind |-> "fixed", whole |-> tenths \div 10, frac |-> tenths % 10]
NAText == [kind |-> "N/A", whole |-> 0, frac |-> 0]
Throws == [kind |-> "throws", whole |-> 0, frac |-> 0]

\* The rating expression of the card and detail renderers, per iteration.
RatingText(v, professional) ==
    CASE v = "part_000" ->
            IF professional.Rating = None THEN Throws
            ELSE ToFixed1(professional.Rating[1])
      [] v = "part_001" ->
            IF TruthyNum(professional.Rating) THEN ToFixed1(professional.Rating[1])
            ELSE NAText
      [] v = "App" ->
            IF TruthyNum(professional.Rating) THEN ToFixed1(professional.Rating[1])
            ELSE NAText

ProfessionalCard(v, professional) == RatingText(v, professional)
ProfessionalDetails(v, professional) == RatingText(v, professional)

\* Variant of ProfessionalList that starts the map at the second record.
ProfessionalList_SkipsFirst(profs) ==
    [i \in 1..(IF Len(profs.items) = 0 THEN 0 ELSE Len(profs.items) - 1) |->
        [key |-> profs.items[i + 1].ProfessionalID, professional |-> profs.items[i + 1]]]

\* professionals.map(prof => <ProfessionalCard key={prof.ProfessionalID} .../>)
ProfessionalList(profs) ==
    [i \in 1..Len(profs.items) |->
        [key |-> profs.items[i].ProfessionalID, professional |-> profs.items[i]]]

\* ------------------------------------------------------------- render tree
ShowsSpinner == isLoading
ShowsError == TruthyStr(error)
ShowsMain == ~isLoading /\ ~TruthyStr(error)
ShowsList == ShowsMain /\ selectedProfessional = None
ShowsDetail == ShowsMain /\ selectedProfessional # None
ShowsModal == HasModal(variant) /\ isBooking /\ selectedProfessional # None

\* A render that throws unmounts the whole tree: no handler is reachable.
RenderThrows ==
    \/ /\ ShowsList
       /\ \/ ~professionals.isArray
          \/ \E i \in 1..Len(professionals.items) :
                ProfessionalCard(variant, professionals.items[i]) = Throws
    \/ /\ ShowsDetail
       /\ ProfessionalDetails(variant, selectedProfessional[1]) = Throws

\* The page is alive and the event loop is between two tasks.
Interactive == location = "app" /\ fetchPc # "finally" /\ ~RenderThrows

\* ---------------------------------------------------------------- Init
\* The whiteboard App before it is mounted (and for ever, under Spec).
WbUnmounted ==
    /\ wbPc = "mount"
    /\ signInPc = "idle"
    /\ authEvents = <<>>
    /\ db = FALSE
    /\ userId = None
    /\ authError = None
    /\ isAuthReady = FALSE
    /\ tool = "pen"
    /\ color = "#000000"
    /\ isDrawing = FALSE
    /\ drawing = None
    /\ elements = <<>>
    /\ remote = {}
    /\ writes = <<>>
    /\ deletes = <<>>
    /\ snapshotDue = FALSE
    /\ now = 0
    /\ serverClock = 0
    /\ gestures = 0
    /\ remoteWrites = 0
    /\ clears = 0
    /\ trace = <<>>
    /\ wbOp = "none"

EmptyList == [isArray |-> TRUE, items |-> <<>>]
NoAuthResponse == [kind |-> "network", items |-> <<>>]

Init ==
    /\ variant \in Variants
    /\ profResponse \in ProfResponses
    /\ meResponse \in (IF variant = "App" THEN MeResponses ELSE {NoAuthResponse})
    /\ professionals = EmptyList
    /\ selectedProfessional = None
    /\ isBooking = FALSE
    /\ isLoading = TRUE
    /\ error = None
    /\ user = None
    /\ fetchPc = "mount"
    /\ authPc = "mount"
    /\ location = "app"
    /\ address = ""
    /\ dateTime = ""
    /\ getCount = 0
    /\ postCount = 0
    /\ confirmCalls = 0
    /\ bookingsInFlight = 0
    /\ lastOp = "none"
    /\ listAtSelect = EmptyList
    /\ firebaseConfig = "absent"
    /\ initialUser = None
    /\ signInOutcome = "fail"
    /\ WbUnmounted

\* ------------------------------------------------- load: auth and fetching

\* useEffect(..., []): runs once after the first render.  checkUserAuth()
\* and fetchProfessionals() each run up to their first await.
useEffectMount ==
    /\ fetchPc = "mount"
    /\ authPc' = IF variant = "App" THEN "pending" ELSE "none"
    /\ isLoading' = TRUE
    /\ error' = None
    /\ getCount' = getCount + 1
    /\ fetchPc' = "pending"
    /\ lastOp' = "Mount"
    /\ UNCHANGED <<env, professionals, selectedProfessional, isBooking, user, location,
                   form, postCount, confirmCalls, bookingsInFlight, listAtSelect>>

\* Property reads on the parsed body `data` of /.auth/me.  A JSON array has
\* no own property user_id or user_claims: the read yields undefined.
IsArray(data) == data.kind = "array"
Index0(data) == IF data.kind = "array" /\ Len(data.items) > 0 THEN Some(data.items[1]) ELSE None
GetUserId(data) == IF data.kind = "object" THEN data.items[1].user_id ELSE None
GetUserClaims(data) == IF data.kind = "object" THEN data.items[1].user_claims ELSE <<>>

\* claims.find(c => c.typ === 'name' || c.typ === 'preferred_username')
RECURSIVE FindNameClaim(_)
FindNameClaim(claims) ==
    IF claims = <<>> THEN None
    ELSE IF Head(claims).typ \in {"name", "preferred_username"} THEN Some(Head(claims))
    ELSE FindNameClaim(Tail(claims))

\* The value of `user` after checkUserAuth has run on the response resp.
CheckUserAuthResult(resp, cur) ==
    IF resp.kind \in {"network", "malformed"} THEN cur        \* catch: keep user null
    ELSE IF resp.kind = "status" THEN cur                     \* !response.ok
    ELSE IF IsArray(resp) /\ Index0(resp) # None /\ TruthyStr(GetUserId(resp))
         THEN LET nameClaim == FindNameClaim(GetUserClaims(resp))
              IN Some([user_id |-> GetUserId(resp),
                       displayName |-> IF nameClaim # None THEN Some(nameClaim[1].val)
                                       ELSE GetUserId(resp)])
         ELSE cur

\* Variant of checkUserAuth whose catch block reports the failure to the view.
checkUserAuth_SurfacesFailure ==
    /\ variant = "App"
    /\ authPc = "pending"
    /\ location = "app"
    /\ fetchPc # "finally"
    /\ user' = CheckUserAuthResult(meResponse, user)
    /\ error' = IF meResponse.kind \in {"network", "malformed"}
                THEN Some("Auth check failed") ELSE error
    /\ authPc' = "done"
    /\ lastOp' = "AuthCheck"
    /\ UNCHANGED <<env, professionals, selectedProfessional, isBooking, isLoading,
                   fetchPc, location, form, counters, listAtSelect>>

\* The continuation of checkUserAuth once GET /.auth/me has settled.
checkUserAuth ==
    /\ variant = "App"
    /\ authPc = "pending"
    /\ location = "app"
    /\ fetchPc # "finally"
    /\ user' = CheckUserAuthResult(meResponse, user)
    /\ authPc' = "done"
    /\ lastOp' = "AuthCheck"
    /\ UNCHANGED <<env, view, fetchPc, location, form, counters, listAtSelect>>

\* err.message of the failure that reaches the catch block.
ErrMessage(resp) ==
    CASE resp.kind = "status" -> "Failed to fetch data from the server."
      [] resp.kind = "network" -> "Failed to fetch"
      [] resp.kind = "malformed" -> "Unexpected token"

\* The argument of setError, per iteration.
ErrorText(v, resp) ==
    IF v = "App"
    THEN (IF ErrMessage(resp) # "" THEN ErrMessage(resp) ELSE "Failed to load data.")
    ELSE ErrMessage(resp)

\* The argument of setProfessionals, per iteration.
LoadedList(v, resp) ==
    IF v = "App"
    THEN (IF resp.kind = "array" THEN [isArray |-> TRUE, items |-> resp.items] ELSE EmptyList)
    ELSE [isArray |-> resp.kind = "array", items |-> resp.items]

\* try block of fetchProfessionals after a success response with a JSON body.
fetchProfessionalsTry ==
    /\ fetchPc = "pending"
    /\ location = "app"
    /\ profResponse.kind \in {"array", "object"}
    /\ professionals' = LoadedList(variant, profResponse)
    /\ fetchPc' = "finally"
    /\ lastOp' = "FetchTry"
    /\ UNCHANGED <<env, selectedProfessional, isBooking, isLoading, error, user, authPc,
                   location, form, counters, listAtSelect>>

\* Variant of the catch block that only logs the failure.
fetchProfessionalsCatch_Swallows ==
    /\ fetchPc = "pending"
    /\ location = "app"
    /\ profResponse.kind \in {"network", "status", "malformed"}
    /\ fetchPc' = "finally"
    /\ lastOp' = "FetchCatch"
    /\ UNCHANGED <<env, professionals, selectedProfessional, isBooking, isLoading, error,
                   user, authPc, location, form, counters, listAtSelect>>

\* catch block of fetchProfessionals.
fetchProfessionalsCatch ==
    /\ fetchPc = "pending"
    /\ location = "app"
    /\ profResponse.kind \in {"network", "status", "malformed"}
    /\ error' = Some(ErrorText(variant, profResponse))
    /\ fetchPc' = "finally"
    /\ lastOp' = "FetchCatch"
    /\ UNCHANGED <<env, professionals, selectedProfessional, isBooking, isLoading, user,
                   authPc, location, form, counters, listAtSelect>>

\* Variant of the finally block that issues the request again after a failure.
fetchProfessionalsFinally_Retries ==
    /\ fetchPc = "finally"
    /\ IF TruthyStr(error) /\ getCount < 3
       THEN /\ fetchPc' = "pending"
            /\ getCount' = getCount + 1
            /\ error' = None
            /\ UNCHANGED isLoading
       ELSE /\ fetchPc' = "done"
            /\ isLoading' = FALSE
            /\ UNCHANGED <<getCount, error>>
    /\ lastOp' = "FetchFinally"
    /\ UNCHANGED <<env, professionals, selectedProfessional, isBooking, user, authPc,
                   location, form, postCount, confirmCalls, bookingsInFlight, listAtSelect>>

\* finally block of fetchProfessionals; runs in the same task as try/catch.
fetchProfessionalsFinally ==
    /\ fetchPc = "finally"
    /\ isLoading' = FALSE
    /\ fetchPc' = "done"
    /\ lastOp' = "FetchFinally"
    /\ UNCHANGED <<env, professionals, selectedProfessional, isBooking, error, user,
                   authPc, location, form, counters, listAtSelect>>

\* ---------------------------------------------------------- event handlers

\* Variant of the select handler that shows the spinner again.
handleSelectProfessional_ShowsSpinner(i) ==
    /\ Interactive
    /\ ShowsList
    /\ i \in 1..Len(ProfessionalList(professionals))
    /\ selectedProfessional' = Some(ProfessionalList(professionals)[i].professional)
    /\ isLoading' = TRUE
    /\ listAtSelect' = professionals
    /\ lastOp' = "Select"
    /\ UNCHANGED <<env, professionals, isBooking, error, user, fetchPc, authPc,
                   location, form, counters>>

\* Click on the i-th card of the list: onSelect(professional).
handleSelectProfessional(i) ==
    /\ Interactive
    /\ ShowsList
    /\ i \in 1..Len(ProfessionalList(professionals))
    /\ selectedProfessional' = Some(ProfessionalList(professionals)[i].professional)
    /\ listAtSelect' = professionals
    /\ lastOp' = "Select"
    /\ UNCHANGED <<env, professionals, isBooking, isLoading, error, user, fetchPc, authPc,
                   location, form, counters>>

\* Variant of handleGoBack that also resets the loaded list.
handleGoBack_ClearsList ==
    /\ Interactive
    /\ ShowsDetail
    /\ selectedProfessional' = None
    /\ professionals' = EmptyList
    /\ address' = ""
    /\ dateTime' = ""
    /\ lastOp' = "Back"
    /\ UNCHANGED <<env, isBooking, isLoading, error, user, fetchPc, authPc, location,
                   counters, listAtSelect>>

\* "Back to List".  The BookingModal, if mounted, unmounts with its fields.
handleGoBack ==
    /\ Interactive
    /\ ShowsDetail
    /\ selectedProfessional' = None
    /\ address' = ""
    /\ dateTime' = ""
    /\ lastOp' = "Back"
    /\ UNCHANGED <<env, professionals, isBooking, isLoading, error, user, fetchPc, authPc,
                   location, counters, listAtSelect>>

\* "Book Now".  part_000 renders the button without a handler.
handleOpenBookingModal ==
    /\ Interactive
    /\ ShowsDetail
    /\ HasModal(variant)
    /\ IF variant = "App" /\ user = None
       THEN /\ location' = "login"          \* window.location.href = buildLoginUrl()
            /\ UNCHANGED isBooking
       ELSE /\ isBooking' = TRUE
            /\ UNCHANGED location
    /\ lastOp' = "BookNow"
    /\ UNCHANGED <<env, professionals, selectedProfessional, isLoading, error, user,
                   fetchPc, authPc, form, counters, listAtSelect>>

\* "Cancel" in the modal.
handleCloseBookingModal ==
    /\ Interactive
    /\ ShowsModal
    /\ isBooking' = FALSE
    /\ address' = ""
    /\ dateTime' = ""
    /\ lastOp' = "Cancel"
    /\ UNCHANGED <<env, professionals, selectedProfessional, isLoading, error, user,
                   fetchPc, authPc, location, counters, listAtSelect>>

\* onChange of the address input.
setAddress(v) ==
    /\ Interactive
    /\ ShowsModal
    /\ v # address
    /\ address' = v
    /\ lastOp' = "Type"
    /\ UNCHANGED <<env, view, user, fetchPc, authPc, location, dateTime, counters,
                   listAtSelect>>

\* onChange of the date-time input.
setDateTime(v) ==
    /\ Interactive
    /\ ShowsModal
    /\ v # dateTime
    /\ dateTime' = v
    /\ lastOp' = "Type"
    /\ UNCHANGED <<env, view, user, fetchPc, authPc, location, address, counters,
                   listAtSelect>>

\* Variant of the confirm handler that never calls handleCloseBookingModal.
handleConfirmBooking_StaysOpen ==
    /\ confirmCalls' = confirmCalls + 1
    /\ lastOp' = "Confirm"
    /\ IF variant = "App" /\ user # None
       THEN /\ postCount' = postCount + 1
            /\ bookingsInFlight' = bookingsInFlight + 1
       ELSE UNCHANGED <<postCount, bookingsInFlight>>
    /\ UNCHANGED <<isBooking, address, dateTime>>

\* The confirm handler, called with the booking details.  part_001 closes
\* the modal at once; App refuses without a user and otherwise issues the
\* POST, whose continuation is handleConfirmBookingSettled.
handleConfirmBooking ==
    /\ confirmCalls' = confirmCalls + 1
    /\ lastOp' = "Confirm"
    /\ IF variant = "App"
       THEN /\ IF user = None
               THEN UNCHANGED <<postCount, bookingsInFlight>>
               ELSE /\ postCount' = postCount + 1
                    /\ bookingsInFlight' = bookingsInFlight + 1
            /\ UNCHANGED <<isBooking, address, dateTime>>
       ELSE /\ isBooking' = FALSE
            /\ address' = ""
            /\ dateTime' = ""
            /\ UNCHANGED <<postCount, bookingsInFlight>>

\* Variant of the guard that refuses only when both fields are empty.
SubmitRefused_BothEmpty(a, d) == a = "" /\ d = ""

\* The guard of BookingModal.handleSubmit: true when the submit is refused.
SubmitRefused(a, d) == a = "" \/ d = ""

\* Submit of the booking form.
handleSubmit ==
    /\ Interactive
    /\ ShowsModal
    /\ confirmCalls < MaxConfirms
    /\ IF SubmitRefused(address, dateTime)
       THEN /\ lastOp' = "SubmitRefused"    \* alert(...); return
            /\ UNCHANGED <<isBooking, address, dateTime, postCount, confirmCalls,
                           bookingsInFlight>>
       ELSE handleConfirmBooking
    /\ UNCHANGED <<env, professionals, selectedProfessional, isLoading, error, user,
                   fetchPc, authPc, location, getCount, listAtSelect>>

\* The continuation of App's handleConfirmBooking once the POST has settled:
\* a blocking alert with the outcome, then finally handleCloseBookingModal().
handleConfirmBookingSettled ==
    /\ variant = "App"
    /\ bookingsInFlight > 0
    /\ location = "app"
    /\ bookingsInFlight' = bookingsInFlight - 1
    /\ isBooking' = FALSE
    /\ address' = ""
    /\ dateTime' = ""
    /\ lastOp' = "ConfirmSettled"
    /\ UNCHANGED <<env, professionals, selectedProfessional, isLoading, error, user,
                   fetchPc, authPc, location, getCount, postCount, confirmCalls,
                   listAtSelect>>

\* The Login link of App's Header (rendered while user is null).
clickLogin ==
    /\ variant = "App"
    /\ location = "app"
    /\ fetchPc \notin {"mount", "finally"}
    /\ user = None
    /\ location' = "login"
    /\ lastOp' = "Login"
    /\ UNCHANGED <<env, view, user, fetchPc, authPc, form, counters, listAtSelect>>

\* ------------------------------------------------------------ specification
\* handleConfirmBookingSettled is not a disjunct: no POST is ever in flight
\* (see NoBookingRequestInApp below).
Next ==
    \/ useEffectMount
    \/ checkUserAuth
    \/ fetchProfessionalsTry
    \/ fetchProfessionalsCatch
    \/ fetchProfessionalsFinally
    \/ \E i \in 1..MaxRecords + 1 : handleSelectProfessional(i)
    \/ handleGoBack
    \/ handleOpenBookingModal
    \/ handleCloseBookingModal
    \/ \E v \in FieldValues : setAddress(v)
    \/ \E v \in FieldValues : setDateTime(v)
    \/ handleSubmit
    \/ clickLogin

Spec == Init /\ [][Next]_vars

TypeOK ==
    /\ variant \in Variants
    /\ isBooking \in BOOLEAN
    /\ isLoading \in BOOLEAN
    /\ fetchPc \in {"mount", "pending", "finally", "done"}
    /\ authPc \in {"mount", "none", "pending", "done"}
    /\ location \in {"app", "login"}
    /\ address \in FieldValues
    /\ dateTime \in FieldValues
    /\ getCount \in 0..1
    /\ confirmCalls \in 0..MaxConfirms

\* In App the user is never set, so the modal never opens and no booking
\* request is ever issued.
NoBookingRequestInApp ==
    variant = "App" => user = None /\ ~isBooking /\ postCount = 0 /\ bookingsInFlight = 0

\* ======================================================================
\* The collaborative whiteboard (src/unnamed/part_001, lines 246-592)
\* ======================================================================

\* ------------------------------------------------------------------ bounds
MaxGestures == 1        \* pointer-downs that start a gesture
MaxMoves == 2           \* pointer-moves recorded per gesture
MaxInFlight == 2        \* setDoc calls awaiting their outcome at one time
MaxRemoteWrites == 1    \* documents the other author writes
MaxClears == 1          \* confirmed clear-all requests

\* ----------------------------------------------------------- value domains
Tools == {"pen", "rectangle", "circle"}       \* the three ToolButtons
Colors == {"#000000", "#EF4444"}              \* two entries of the palette

\* canvas.getBoundingClientRect(): the canvas starts at the left edge of the
\* viewport, below the header.
CanvasRect == [left |-> 0, top |-> 20]

\* A mouse event has clientX/clientY and no touches; a touch event has
\* touches and no clientX/clientY.
MouseEvent(x, y) == [clientX |-> Some(x), clientY |-> Some(y), touches |-> <<>>]
TouchEvent(x, y) == [clientX |-> None, clientY |-> None,
                     touches |-> <<[clientX |-> x, clientY |-> y]>>]
DownEvents == {MouseEvent(50, 70), MouseEvent(0, 70), TouchEvent(50, 70)}
MoveEvents == {MouseEvent(90, 100), MouseEvent(0, 100)}

\* Where the pointer of the event is, in canvas coordinates.
PointerPosition(event) ==
    LET p == IF event.touches # <<>> THEN event.touches[1]
             ELSE [clientX |-> event.clientX[1], clientY |-> event.clientY[1]]
    IN [x |-> p.clientX - CanvasRect.left, y |-> p.clientY - CanvasRect.top]

\* getCoords: event.clientX || event.touches[0].clientX, and the same for Y.
\* A falsy clientX (undefined, or 0) falls through to touches[0], which
\* throws a TypeError when the event has no touches.  None stands for the throw.
getCoords(event) ==
    IF (~TruthyNum(event.clientX) \/ ~TruthyNum(event.clientY)) /\ event.touches = <<>>
    THEN None
    ELSE LET clientX == IF TruthyNum(event.clientX) THEN event.clientX[1]
                        ELSE event.touches[1].clientX
             clientY == IF TruthyNum(event.clientY) THEN event.clientY[1]
                        ELSE event.touches[1].clientY
         IN Some([x |-> clientX - CanvasRect.left, y |-> clientY - CanvasRect.top])

\* An element.  Fields an element type does not have are 0 (numbers) or <<>>
\* (points); timestamp is null until the server has assigned one.
Element(id, type, points, x, y, width, height, c, uid, ts) ==
    [id |-> id, type |-> type, points |-> points, x |-> x, y |-> y,
     width |-> width, height |-> height, color |-> c, userId |-> uid, timestamp |-> ts]

\* createElement(id, x, y) under the active tool t, color c and user uid.
createElement(t, c, uid, id, x, y) ==
    CASE t = "pen" -> Some(Element(id, "pen", <<[x |-> x, y |-> y]>>, 0, 0, 0, 0, c, uid, None))
      [] t = "rectangle" -> Some(Element(id, "rectangle", <<>>, x, y, 0, 0, c, uid, None))
      [] t = "circle" -> Some(Element(id, "circle", <<>>, x, y, 0, 0, c, uid, None))
      [] OTHER -> None

\* The updater of handleMouseMove: prevDrawing with the point (x, y) applied.
updatedElement(prevDrawing, x, y) ==
    CASE prevDrawing.type = "pen" ->
            [prevDrawing EXCEPT !.points = Append(prevDrawing.points, [x |-> x, y |-> y])]
      [] prevDrawing.type \in {"rectangle", "circle"} ->
            [prevDrawing EXCEPT !.width = x - prevDrawing.x, !.height = y - prevDrawing.y]
      [] OTHER -> prevDrawing

\* Math.sqrt on a non-negative integer, to the integer below.
Sqrt(n) == CHOOSE k \in 0..n : k * k <= n /\ (k + 1) * (k + 1) > n

\* drawElement: what is stroked for an element.
drawElement(el) ==
    CASE el.type = "pen" ->
            [shape |-> "path", points |-> el.points, x |-> 0, y |-> 0, w |-> 0, h |-> 0,
             radius |-> 0, strokeStyle |-> el.color]
      [] el.type = "rectangle" ->
            [shape |-> "rect", points |-> <<>>, x |-> el.x, y |-> el.y, w |-> el.width,
             h |-> el.height, radius |-> 0, strokeStyle |-> el.color]
      [] el.type = "circle" ->
            [shape |-> "arc", points |-> <<>>, x |-> el.x, y |-> el.y, w |-> 0, h |-> 0,
             radius |-> Sqrt(el.width * el.width + el.height * el.height),
             strokeStyle |-> el.color]
      [] OTHER ->
            [shape |-> "none", points |-> <<>>, x |-> 0, y |-> 0, w |-> 0, h |-> 0,
             radius |-> 0, strokeStyle |-> el.color]

\* redraw: the synced elements, then the element being created.
redraw == [i \in 1..Len(elements) |-> drawElement(elements[i])]
             \o (IF drawing # None THEN <<drawElement(drawing[1])>> ELSE <<>>)

\* --------------------------------------------------- the drawings collection

\* Document keys are the strings `${userId}-${Date.now()}`; a null userId
\* prints as "null", which sorts before "u1" and "u2".
UidRank(uid) == IF uid = None THEN 0 ELSE IF uid = Some("u1") THEN 1 ELSE 2
KeyBefore(a, b) ==
    \/ UidRank(a.uid) < UidRank(b.uid)
    \/ UidRank(a.uid) = UidRank(b.uid) /\ a.t < b.t

\* Index of the last pending setDoc for the key id, or 0.
LastWrite(id) ==
    LET is == {i \in 1..Len(writes) : writes[i].id = id}
    IN IF is = {} THEN 0 ELSE CHOOSE i \in is : \A j \in is : j <= i

\* The collection as the client's listener sees it: the server's documents,
\* overlaid with the client's pending writes (whose serverTimestamp() is
\* still null) and without the documents it has a pending delete for.
View ==
    LET pendingDeleted == {deletes[i] : i \in 1..Len(deletes)}
        written == {writes[i].id : i \in 1..Len(writes)}
        local == {[writes[LastWrite(id)].el EXCEPT !.timestamp = None] : id \in written}
        server == {d \in remote : d.id \notin written}
    IN {d \in local \cup server : d.id \notin pendingDeleted}

\* The documents of a snapshot in key order, as snapshot.forEach visits them.
RECURSIVE InKeyOrder(_)
InKeyOrder(docs) ==
    IF docs = {} THEN <<>>
    ELSE LET first == CHOOSE d \in docs : \A e \in docs : e = d \/ KeyBefore(d.id, e.id)
         IN <<first>> \o InKeyOrder(docs \ {first})

\* a.timestamp?.toMillis() || 0
Millis(el) == IF el.timestamp = None THEN 0 ELSE el.timestamp[1]

\* The element e inserted into the sorted sequence s behind every element
\* that does not compare greater (Array.prototype.sort is stable).
RECURSIVE InsertSorted(_, _)
InsertSorted(s, e) ==
    IF s = <<>> THEN <<e>>
    ELSE IF Millis(Head(s)) - Millis(e) <= 0 THEN <<Head(s)>> \o InsertSorted(Tail(s), e)
    ELSE <<e>> \o s

\* A callback that leaves the documents in the order of the snapshot.
SortByTimestamp_KeepsKeyOrder(s) == s

\* fetchedElements.sort((a, b) => millis(a) - millis(b))
RECURSIVE SortByTimestamp(_)
SortByTimestamp(s) ==
    IF s = <<>> THEN <<>>
    ELSE InsertSorted(SortByTimestamp(SubSeq(s, 1, Len(s) - 1)), s[Len(s)])

\* The sync effect has run: the listener is attached.
Subscribed == isAuthReady /\ db

wbEnv == <<firebaseConfig, initialUser, signInOutcome>>
wbAuth == <<wbPc, signInPc, authEvents, db, userId, authError, isAuthReady>>
wbToolbar == <<tool, color>>
wbCloud == <<remote, writes, deletes, serverClock, remoteWrites>>
wbGesture == <<isDrawing, drawing, now, gestures, trace>>

\* ------------------------------------------------------------------- Init
MarketplaceUnloaded ==
    /\ variant = "whiteboard"
    /\ profResponse = NoAuthResponse
    /\ meResponse = NoAuthResponse
    /\ professionals = EmptyList
    /\ selectedProfessional = None
    /\ isBooking = FALSE
    /\ isLoading = TRUE
    /\ error = None
    /\ user = None
    /\ fetchPc = "mount"
    /\ authPc = "mount"
    /\ location = "app"
    /\ address = ""
    /\ dateTime = ""
    /\ getCount = 0
    /\ postCount = 0
    /\ confirmCalls = 0
    /\ bookingsInFlight = 0
    /\ lastOp = "none"
    /\ listAtSelect = EmptyList

WbInit ==
    /\ MarketplaceUnloaded
    /\ firebaseConfig \in {"present", "absent", "invalid"}
    /\ initialUser \in (IF firebaseConfig = "present" THEN {None, Some("u1")} ELSE {None})
    /\ signInOutcome \in (IF firebaseConfig = "present" /\ initialUser = None
                          THEN {"ok", "fail"} ELSE {"fail"})
    /\ WbUnmounted

\* ------------------------------------------ initialization and auth effect

\* The initialization effect: config check, initializeApp/getAuth/
\* getFirestore, setDb, and the registration of the auth listener.
wbMount ==
    /\ wbPc = "mount"
    /\ CASE firebaseConfig = "absent" ->
              /\ authError' = Some("Application is not configured correctly.")
              /\ wbPc' = "failed"
              /\ UNCHANGED <<db, authEvents>>
         [] firebaseConfig = "invalid" ->
              /\ authError' = Some("Failed to initialize the application.")
              /\ wbPc' = "failed"
              /\ UNCHANGED <<db, authEvents>>
         [] firebaseConfig = "present" ->
              /\ db' = TRUE
              /\ authEvents' = <<initialUser>>
              /\ wbPc' = "running"
              /\ UNCHANGED authError
    /\ wbOp' = "Mount"
    /\ UNCHANGED <<marketplace, wbEnv, signInPc, userId, isAuthReady, wbToolbar, wbGesture,
                   elements, wbCloud, snapshotDue, clears>>

\* The onAuthStateChanged callback, up to its await (no user) or to its end.
onAuthStateChanged ==
    /\ authEvents # <<>>
    /\ authEvents' = Tail(authEvents)
    /\ IF Head(authEvents) # None
       THEN /\ userId' = Head(authEvents)
            /\ isAuthReady' = TRUE
            /\ snapshotDue' = TRUE
            /\ UNCHANGED signInPc
       ELSE /\ signInPc' = "pending"
            /\ UNCHANGED <<userId, isAuthReady, snapshotDue>>
    /\ wbOp' = "AuthEvent"
    /\ UNCHANGED <<marketplace, wbEnv, wbPc, db, authError, wbToolbar, wbGesture, elements,
                   wbCloud, clears>>

\* signInWithCustomToken / signInAnonymously settles; on success the SDK
\* notifies the auth listener of the new user.
signInSettled ==
    /\ signInPc = "pending"
    /\ IF signInOutcome = "ok"
       THEN /\ signInPc' = "resolved"
            /\ authEvents' = Append(authEvents, Some("u1"))
       ELSE /\ signInPc' = "rejected"
            /\ UNCHANGED authEvents
    /\ wbOp' = "SignInSettled"
    /\ UNCHANGED <<marketplace, wbEnv, wbPc, db, userId, authError, isAuthReady, wbToolbar,
                   wbGesture, elements, wbCloud, snapshotDue, clears>>

\* The rest of the callback after the await: catch, then setIsAuthReady(true).
signInContinuation ==
    /\ signInPc \in {"resolved", "rejected"}
    /\ authError' = IF signInPc = "rejected"
                    THEN Some("Could not connect to the collaborative session.")
                    ELSE authError
    /\ isAuthReady' = TRUE
    /\ snapshotDue' = TRUE
    /\ signInPc' = "done"
    /\ wbOp' = "SignInContinuation"
    /\ UNCHANGED <<marketplace, wbEnv, wbPc, authEvents, db, userId, wbToolbar, wbGesture,
                   elements, wbCloud, clears>>

\* ----------------------------------------------------------------- toolbar
setTool(t) ==
    /\ wbPc # "mount"
    /\ trace = <<>>
    /\ gestures < MaxGestures
    /\ t # tool
    /\ tool' = t
    /\ wbOp' = "Tool"
    /\ UNCHANGED <<marketplace, wbEnv, wbAuth, color, wbGesture, elements, wbCloud,
                   snapshotDue, clears>>

setColor(c) ==
    /\ wbPc # "mount"
    /\ trace = <<>>
    /\ gestures < MaxGestures
    /\ c # color
    /\ color' = c
    /\ wbOp' = "Color"
    /\ UNCHANGED <<marketplace, wbEnv, wbAuth, tool, wbGesture, elements, wbCloud,
                   snapshotDue, clears>>

\* ---------------------------------------------------------- pointer events

\* onMouseDown / onTouchStart.  trace records where the pointer went down.
handleMouseDown(e) ==
    /\ wbPc # "mount"
    /\ trace = <<>>
    /\ gestures < MaxGestures
    /\ gestures' = gestures + 1
    /\ now' = now + 1
    /\ trace' = <<PointerPosition(e)>>
    /\ IF ~isAuthReady \/ ~db
       THEN /\ wbOp' = "DownIgnored"
            /\ UNCHANGED <<isDrawing, drawing>>
       ELSE IF getCoords(e) = None
       THEN /\ wbOp' = "DownThrew"
            /\ UNCHANGED <<isDrawing, drawing>>
       ELSE /\ isDrawing' = TRUE
            /\ IF tool = "eraser"
               THEN /\ wbOp' = "DownEraser"
                    /\ UNCHANGED drawing
               ELSE LET id == [uid |-> userId, t |-> now]
                        newElement == createElement(tool, color, userId, id,
                                                    getCoords(e)[1].x, getCoords(e)[1].y)
                    IN /\ drawing' = IF newElement # None THEN newElement ELSE drawing
                       /\ wbOp' = "Down"
    /\ UNCHANGED <<marketplace, wbEnv, wbAuth, wbToolbar, elements, wbCloud, snapshotDue,
                   clears>>

\* onMouseMove / onTouchMove.
handleMouseMove(e) ==
    /\ wbPc # "mount"
    /\ Len(trace) <= MaxMoves
    /\ drawing # None => Len(drawing[1].points) <= MaxMoves
    /\ trace' = IF trace # <<>> THEN Append(trace, PointerPosition(e)) ELSE trace
    /\ IF ~isDrawing \/ drawing = None
       THEN /\ wbOp' = "MoveIgnored"
            /\ UNCHANGED drawing
       ELSE IF getCoords(e) = None
       THEN /\ wbOp' = "MoveThrew"
            /\ UNCHANGED drawing
       ELSE /\ drawing' = Some(updatedElement(drawing[1], getCoords(e)[1].x, getCoords(e)[1].y))
            /\ wbOp' = "Move"
    /\ UNCHANGED <<marketplace, wbEnv, wbAuth, wbToolbar, isDrawing, now, gestures, elements,
                   wbCloud, snapshotDue, clears>>

\* A pointer-up that also appends the shape to the persisted list itself.
handleMouseUp_AppendsLocally ==
    /\ wbPc # "mount"
    /\ IF ~isDrawing \/ drawing = None \/ ~db
       THEN /\ wbOp' = "UpIgnored"
            /\ UNCHANGED <<writes, snapshotDue, elements>>
       ELSE /\ Len(writes) < MaxInFlight
            /\ writes' = Append(writes, [id |-> drawing[1].id, el |-> drawing[1]])
            /\ elements' = Append(elements, drawing[1])
            /\ snapshotDue' = TRUE
            /\ wbOp' = "Up"
    /\ trace' = <<>>
    /\ UNCHANGED <<marketplace, wbEnv, wbAuth, wbToolbar, isDrawing, drawing, now, gestures,
                   remote, deletes, serverClock, remoteWrites, clears>>

\* onMouseUp / onMouseLeave / onTouchEnd, up to the await of setDoc.
handleMouseUp ==
    /\ wbPc # "mount"
    /\ IF ~isDrawing \/ drawing = None \/ ~db
       THEN /\ wbOp' = "UpIgnored"
            /\ UNCHANGED <<writes, snapshotDue>>
       ELSE /\ Len(writes) < MaxInFlight
            /\ writes' = Append(writes, [id |-> drawing[1].id, el |-> drawing[1]])
            /\ snapshotDue' = TRUE
            /\ wbOp' = "Up"
    /\ trace' = <<>>
    /\ UNCHANGED <<marketplace, wbEnv, wbAuth, wbToolbar, isDrawing, drawing, now, gestures,
                   elements, remote, deletes, serverClock, remoteWrites, clears>>

RemoveAt(s, i) == SubSeq(s, 1, i - 1) \o SubSeq(s, i + 1, Len(s))

\* A handler that keeps the shape in progress when its write fails.
handleMouseUpSettled_KeepsFailedShape(i, ok) ==
    /\ i \in 1..Len(writes)
    /\ IF ok
       THEN /\ remote' = {d \in remote : d.id # writes[i].id}
                           \cup {[writes[i].el EXCEPT !.timestamp = Some(serverClock + 1)]}
            /\ serverClock' = serverClock + 1
            /\ isDrawing' = FALSE
            /\ drawing' = None
       ELSE UNCHANGED <<remote, serverClock, isDrawing, drawing>>
    /\ writes' = RemoveAt(writes, i)
    /\ snapshotDue' = TRUE
    /\ wbOp' = IF ok THEN "WriteOk" ELSE "WriteFailed"
    /\ UNCHANGED <<marketplace, wbEnv, wbAuth, wbToolbar, now, gestures, trace, elements,
                   deletes, remoteWrites, clears>>

\* The i-th pending setDoc settles and handleMouseUp resumes after its await:
\* on success the document is stored with the server's timestamp, on failure
\* the error is logged; either way setIsDrawing(false), setDrawing(null).
handleMouseUpSettled(i, ok) ==
    /\ i \in 1..Len(writes)
    /\ IF ok
       THEN /\ remote' = {d \in remote : d.id # writes[i].id}
                           \cup {[writes[i].el EXCEPT !.timestamp = Some(serverClock + 1)]}
            /\ serverClock' = serverClock + 1
       ELSE UNCHANGED <<remote, serverClock>>
    /\ writes' = RemoveAt(writes, i)
    /\ isDrawing' = FALSE
    /\ drawing' = None
    /\ snapshotDue' = TRUE
    /\ wbOp' = IF ok THEN "WriteOk" ELSE "WriteFailed"
    /\ UNCHANGED <<marketplace, wbEnv, wbAuth, wbToolbar, now, gestures, trace, elements,
                   deletes, remoteWrites, clears>>

\* ------------------------------------------------------- remote subscription

\* The onSnapshot callback: the whole current set, sorted, replaces elements.
onSnapshot ==
    /\ Subscribed
    /\ snapshotDue
    /\ elements' = SortByTimestamp(InKeyOrder(View))
    /\ snapshotDue' = FALSE
    /\ wbOp' = "Snapshot"
    /\ UNCHANGED <<marketplace, wbEnv, wbAuth, wbToolbar, wbGesture, wbCloud, clears>>

\* Another author's client stores a finished shape.
remoteAuthorWrite ==
    /\ wbPc = "running"
    /\ remoteWrites < MaxRemoteWrites
    /\ remoteWrites' = remoteWrites + 1
    /\ remote' = remote \cup
          {Element([uid |-> Some("u2"), t |-> remoteWrites + 1], "rectangle", <<>>,
                   50, 50, 40, 30, "#000000", Some("u2"), Some(serverClock + 1))}
    /\ serverClock' = serverClock + 1
    /\ snapshotDue' = TRUE
    /\ wbOp' = "RemoteWrite"
    /\ UNCHANGED <<marketplace, wbEnv, wbAuth, wbToolbar, wbGesture, elements, writes,
                   deletes, clears>>

\* ----------------------------------------------------------------- clear-all

\* The Clear Canvas button; confirmation is the answer to window.confirm.
handleClearCanvas(confirmation) ==
    /\ wbPc # "mount"
    /\ clears < MaxClears
    /\ IF ~db
       THEN /\ wbOp' = "ClearIgnored"
            /\ UNCHANGED <<deletes, clears, snapshotDue>>
       ELSE IF confirmation
       THEN /\ deletes' = deletes \o [i \in 1..Len(elements) |-> elements[i].id]
            /\ clears' = clears + 1
            /\ snapshotDue' = (snapshotDue \/ (Subscribed /\ elements # <<>>))
            /\ wbOp' = "Clear"
       ELSE /\ wbOp' = "ClearDeclined"
            /\ UNCHANGED <<deletes, clears, snapshotDue>>
    /\ UNCHANGED <<marketplace, wbEnv, wbAuth, wbToolbar, wbGesture, elements, remote, writes,
                   serverClock, remoteWrites>>

\* A clear-all that gives up its remaining deletes when one fails.
deleteDocSettled_FailureStopsTheRest(i, ok) ==
    /\ i \in 1..Len(deletes)
    /\ remote' = IF ok THEN {d \in remote : d.id # deletes[i]} ELSE remote
    /\ deletes' = IF ok THEN RemoveAt(deletes, i) ELSE <<>>
    /\ snapshotDue' = TRUE
    /\ wbOp' = IF ok THEN "DeleteOk" ELSE "DeleteFailed"
    /\ UNCHANGED <<marketplace, wbEnv, wbAuth, wbToolbar, wbGesture, elements, writes,
                   serverClock, remoteWrites, clears>>

\* The i-th pending deleteDoc settles; a failure is logged.
deleteDocSettled(i, ok) ==
    /\ i \in 1..Len(deletes)
    /\ remote' = IF ok THEN {d \in remote : d.id # deletes[i]} ELSE remote
    /\ deletes' = RemoveAt(deletes, i)
    /\ snapshotDue' = TRUE
    /\ wbOp' = IF ok THEN "DeleteOk" ELSE "DeleteFailed"
    /\ UNCHANGED <<marketplace, wbEnv, wbAuth, wbToolbar, wbGesture, elements, writes,
                   serverClock, remoteWrites, clears>>

\* ------------------------------------------------------------ specification
WbNext ==
    \/ wbMount
    \/ onAuthStateChanged
    \/ signInSettled
    \/ signInContinuation
    \/ \E t \in Tools : setTool(t)
    \/ \E c \in Colors : setColor(c)
    \/ \E e \in DownEvents : handleMouseDown(e)
    \/ \E e \in MoveEvents : handleMouseMove(e)
    \/ handleMouseUp
    \/ \E i \in 1..MaxInFlight, ok \in BOOLEAN : handleMouseUpSettled(i, ok)
    \/ onSnapshot
    \/ remoteAuthorWrite
    \/ \E confirmation \in BOOLEAN : handleClearCanvas(confirmation)
    \/ \E i \in 1..(MaxGestures + MaxRemoteWrites), ok \in BOOLEAN : deleteDocSettled(i, ok)

WbSpec == WbInit /\ [][WbNext]_vars

\* ------------------------------------------------------------------ claims

\* GET /.auth/me answered with success and an array whose first element
\* contains a user_id.
RecognizedSession(resp) ==
    /\ resp.kind = "array"
    /\ Len(resp.items) > 0
    /\ TruthyStr(resp.items[1].user_id)

\* The display name the session entry resolves to: the value of the first
\* claim typed name or preferred_username, else the user_id.
ResolvedDisplayName(resp) ==
    LET entry == resp.items[1]
        nameClaim == FindNameClaim(entry.user_claims)
    IN IF nameClaim # None THEN Some(nameClaim[1].val) ELSE entry.user_id

\* The auth check has completed and found a recognized session.
SessionAuthenticated == authPc = "done" /\ RecognizedSession(meResponse)

\* C1: in App, "Book Now" with no authenticated user redirects to the login
\* URL and leaves the modal closed; with an authenticated user it opens the
\* modal (isBooking becomes true) and does not redirect.
C1_BookNowGatedOnAuth ==
    [][(handleOpenBookingModal /\ variant = "App") =>
          IF SessionAuthenticated
          THEN isBooking' /\ location' = "app"
          ELSE location' = "login" /\ ~isBooking']_vars

\* C2: once the auth check has completed on a recognized session, the user
\* is present and its display name is the value of the first name or
\* preferred_username claim, or the user_id when there is no such claim.
C2_RecognizedSessionSetsUser ==
    SessionAuthenticated =>
        /\ user # None
        /\ user[1].displayName = ResolvedDisplayName(meResponse)

\* The view state the professionals load leaves, as a function of the
\* response alone.
LoadOutcomeOf(v, resp) ==
    IF resp.kind \in {"array", "object"}
    THEN [professionals |-> LoadedList(v, resp), error |-> None]
    ELSE [professionals |-> EmptyList, error |-> Some(ErrorText(v, resp))]

\* C3: an auth check on anything but a recognized session leaves the user
\* absent and does not touch the error and loading flags, and the
\* professionals load ends in the list or the error state its own response
\* determines.
C3_AuthFailureIsSwallowed ==
    /\ [][(checkUserAuth /\ ~RecognizedSession(meResponse)) =>
             /\ user' = None
             /\ UNCHANGED <<error, isLoading, professionals, selectedProfessional,
                            isBooking, fetchPc, location>>]_vars
    /\ []((variant = "App" /\ ~RecognizedSession(meResponse)) =>
             /\ user = None
             /\ (fetchPc = "done" =>
                    /\ ~isLoading
                    /\ professionals = LoadOutcomeOf(variant, profResponse).professionals
                    /\ error = LoadOutcomeOf(variant, profResponse).error))

C3_Witness ==
    /\ variant = "App"
    /\ authPc = "done"
    /\ meResponse.kind = "network"
    /\ fetchPc = "done"
    /\ ShowsList
    /\ Len(professionals.items) > 0

\* C4: after a professionals request that ended in a non-success status or
\* a network failure, the error message is shown, neither the list nor the
\* detail view is rendered, and the professionals collection is empty.
C4_FailedLoadShowsError ==
    (fetchPc = "done" /\ profResponse.kind \in {"status", "network"}) =>
        /\ ShowsError
        /\ ~ShowsSpinner
        /\ ~ShowsList
        /\ ~ShowsDetail
        /\ professionals = EmptyList

C4_Witness ==
    /\ fetchPc = "done"
    /\ profResponse.kind = "status"
    /\ ShowsError
    /\ error = Some("Failed to fetch data from the server.")

ErrorState == ~isLoading /\ ShowsError

\* C5: GET /api/professionals is issued exactly once per page load, and once
\* the view is in the Error state no step issues another one or leaves the
\* Error state.
C5_NoRetry ==
    /\ [](getCount <= 1 /\ (fetchPc # "mount" => getCount = 1))
    /\ [][ErrorState => (ErrorState' /\ getCount' = getCount)]_vars

C5_Witness == ErrorState /\ getCount = 1 /\ lastOp = "Login"

\* C6: after a successful response carrying an array of records, the list
\* view holds one card per record of the response, in response order, each
\* keyed by the record's ProfessionalID; App renders it without throwing.
C6_OneCardPerRecord ==
    (fetchPc = "done" /\ profResponse.kind = "array") =>
        /\ variant = "App" => ~RenderThrows
        /\ (ShowsList /\ ~RenderThrows) =>
              LET cards == ProfessionalList(professionals)
              IN /\ Len(cards) = Len(profResponse.items)
                 /\ \A i \in 1..Len(cards) :
                       /\ cards[i].key = profResponse.items[i].ProfessionalID
                       /\ cards[i].professional = profResponse.items[i]

C6_Witness ==
    /\ variant = "App"
    /\ ShowsList
    /\ Len(ProfessionalList(professionals)) = 2
    /\ ProfessionalList(professionals)[1].key = 2
    /\ ProfessionalList(professionals)[2].key = 1

\* The rating text the claim C7 asks for.
RatingTextClaimed(professional) ==
    IF professional.Rating = None \/ professional.Rating = Some(0)
    THEN NAText
    ELSE ToFixed1(professional.Rating[1])

\* C7: in every iteration, the card and the detail renderer show "N/A" for
\* an absent or zero rating and the one-decimal rating otherwise, and never
\* throw.
C7_RatingTextEveryVariant ==
    (fetchPc = "done" /\ professionals.isArray) =>
        \A i \in 1..Len(professionals.items) :
            /\ ProfessionalCard(variant, professionals.items[i])
                  = RatingTextClaimed(professionals.items[i])
            /\ ProfessionalDetails(variant, professionals.items[i])
                  = RatingTextClaimed(professionals.items[i])

\* C8: Select followed by Back is back in the list view with the same
\* professionals, and Select and Back change no view field but the selected
\* professional.
C8_SelectBackRoundTrip ==
    /\ [](lastOp = "Back" => (ShowsList /\ professionals = listAtSelect))
    /\ [][((\E i \in 1..MaxRecords + 1 : handleSelectProfessional(i)) \/ handleGoBack) =>
             UNCHANGED <<professionals, isBooking, isLoading, error, user>>]_vars

C8_Witness ==
    /\ lastOp = "Back"
    /\ ShowsList
    /\ Len(professionals.items) = 2
    /\ listAtSelect = professionals

\* C9: a submit with the address or the date-time empty does not invoke the
\* confirm handler, issues no POST and leaves the modal open.
C9_EmptyFieldBlocksConfirm ==
    [][(handleSubmit /\ (address = "" \/ dateTime = "")) =>
          /\ confirmCalls' = confirmCalls
          /\ postCount' = postCount
          /\ bookingsInFlight' = bookingsInFlight
          /\ isBooking'
          /\ ShowsModal']_vars

C9_Witness ==
    /\ lastOp = "SubmitRefused"
    /\ ShowsModal
    /\ address = "x"
    /\ dateTime = ""

PointerUpWrites == wbOp' = "Up" /\ trace # <<>> /\ Len(writes') = Len(writes) + 1
WrittenShape == writes'[Len(writes')].el

\* C11: the pen shape written at pointer-up has as its points the pointer-down
\* point followed by the point of every pointer-move of the gesture, in order.
C11_PenPointsAreGesturePoints ==
    [][PointerUpWrites /\ WrittenShape.type = "pen" => WrittenShape.points = trace]_vars

\* C12: the rectangle or circle written at pointer-up has as width and height
\* the signed difference between the last pointer-move position and the
\* pointer-down origin, and a circle is drawn with r^2 = width^2 + height^2
\* around the origin.
C12_SizeIsSignedDelta ==
    [][PointerUpWrites /\ WrittenShape.type \in {"rectangle", "circle"} /\ Len(trace) >= 2
         => /\ WrittenShape.x = trace[1].x
            /\ WrittenShape.y = trace[1].y
            /\ WrittenShape.width = trace[Len(trace)].x - trace[1].x
            /\ WrittenShape.height = trace[Len(trace)].y - trace[1].y
            /\ WrittenShape.type = "circle" =>
                  LET arc == drawElement(WrittenShape)
                  IN /\ arc.x = trace[1].x
                     /\ arc.y = trace[1].y
                     /\ arc.radius * arc.radius =
                           WrittenShape.width * WrittenShape.width
                             + WrittenShape.height * WrittenShape.height]_vars

\* The identifiers of the shapes in the sequence s.
Ids(s) == {s[i].id : i \in 1..Len(s)}

C14_DeliveredSetSortedByTimestamp ==
    [][wbOp' = "Snapshot" =>
          /\ {elements'[i] : i \in 1..Len(elements')} = View
          /\ Len(elements') = Cardinality(View)
          /\ \A i, j \in 1..Len(elements') :
                i < j => Millis(elements'[i]) <= Millis(elements'[j])]_vars

\* Both authors' shapes are listed, the other author's first because it was
\* stored first, although its key comes last in the snapshot.
C14_Witness ==
    /\ wbOp = "Snapshot"
    /\ Len(elements) = 2
    /\ elements[1].userId = Some("u2")
    /\ elements[2].userId = Some("u1")
    /\ elements[1].timestamp = Some(1)
    /\ elements[2].timestamp = Some(2)

\* C15: a confirmed clear-all issues exactly one delete for each identifier of
\* the persisted shape list; a declined one issues none; a delete that fails
\* removes nothing and leaves the other pending deletes pending, and a delete
\* that succeeds removes its own document only.
C15_ClearAllOneDeletePerShape ==
    [][/\ wbOp' = "Clear" =>
             /\ Len(deletes') = Len(deletes) + Len(elements)
             /\ SubSeq(deletes', 1, Len(deletes)) = deletes
             /\ \A id \in Ids(elements) :
                   Cardinality({i \in (Len(deletes) + 1)..Len(deletes') : deletes'[i] = id}) = 1
             /\ remote' = remote
       /\ wbOp' \in {"ClearDeclined", "ClearIgnored"} => deletes' = deletes /\ remote' = remote
       /\ wbOp' = "DeleteFailed" =>
             /\ remote' = remote
             /\ \E i \in 1..Len(deletes) : deletes' = RemoveAt(deletes, i)
       /\ wbOp' = "DeleteOk" =>
             \E i \in 1..Len(deletes) :
                /\ deletes' = RemoveAt(deletes, i)
                /\ remote' = {d \in remote : d.id # deletes[i]}]_vars

\* Clear-all of two shapes: one delete has failed, the other is still pending
\* and both documents are still stored.
C15_Witness ==
    /\ wbOp = "DeleteFailed"
    /\ clears = 1
    /\ Len(deletes) = 1
    /\ Cardinality(remote) = 2
    /\ \E d \in remote : d.id = deletes[1]

\* C16: the persisted shape list changes only in a delivery of the
\* subscription, and what is rendered is that list followed by at most the
\* one shape in progress.
C16_OnlyDeliveriesChangeElements ==
    [][/\ elements' # elements => wbOp' = "Snapshot"
       /\ SubSeq(redraw', 1, Len(elements')) =
             [i \in 1..Len(elements') |-> drawElement(elements'[i])]
       /\ Len(redraw') = Len(elements') + (IF drawing' # None THEN 1 ELSE 0)
       /\ drawing' # None => redraw'[Len(redraw')] = drawElement(drawing'[1])]_vars

\* The write of a gesture has been stored and the list does not have it yet:
\* the delivery is still to come.
C16_Witness ==
    /\ wbOp = "WriteOk"
    /\ elements = <<>>
    /\ Cardinality(remote) = 1
    /\ snapshotDue

\* C17: a pointer-down creates a shape in progress, of the active tool's type
\* and the active color, with its origin at the pointer position and the
\* identifier made of the user id and the current time, exactly when the
\* session is ready and the active tool is not the eraser.
C17_PointerDownCreatesShapeWhenReady ==
    [][gestures' = gestures + 1 =>
          ((isAuthReady /\ db /\ tool # "eraser")
             <=> /\ drawing' # None
                 /\ drawing'[1].id = [uid |-> userId, t |-> now]
                 /\ drawing'[1].type = tool
                 /\ drawing'[1].color = color
                 /\ IF tool = "pen" THEN drawing'[1].points = <<trace'[1]>>
                    ELSE drawing'[1].x = trace'[1].x /\ drawing'[1].y = trace'[1].y)]_vars

\* ------------------------------------------------ marketplace view states

\* The four states of the marketplace view, read off the state flags.
ViewLoading == isLoading
ViewError == ~isLoading /\ TruthyStr(error)
ViewListing == ~isLoading /\ ~TruthyStr(error) /\ selectedProfessional = None
ViewDetail == ~isLoading /\ ~TruthyStr(error) /\ selectedProfessional # None

\* C18: the view is Loading until the professionals request has completed;
\* the completion, whatever its outcome, takes it to exactly one of Listing
\* and Error; it never becomes Loading again; Select happens only in Listing
\* (and leads to Detail), Back and Book Now only in Detail.
C18_LoadingThenListingOrError ==
    [][/\ fetchPc \in {"mount", "pending", "finally"} => ViewLoading
       /\ fetchPc' = "done" => ~ViewLoading'
       /\ ViewLoading /\ ~ViewLoading' =>
             /\ lastOp' = "FetchFinally"
             /\ ViewListing' # ViewError'
       /\ ~ViewLoading => ~ViewLoading'
       /\ lastOp' = "Select" => ViewListing /\ ViewDetail'
       /\ lastOp' \in {"Back", "BookNow"} => ViewDetail]_vars

\* The view has gone Loading, Listing, Detail and is back in Listing.
C18_Witness ==
    /\ fetchPc = "done"
    /\ lastOp = "Back"
    /\ ViewListing
    /\ Len(professionals.items) > 0

\* C19: the loading flag and the error are never set together, in no
\* reachable state, the states between the updates of a failed load included.
C19_LoadingAndErrorExclusive == ~(isLoading /\ TruthyStr(error))

\* C21: the completion of a write never clears a shape in progress other than
\* the one it wrote, and a pointer-up or pointer-leave never issues a write
\* for a shape that already has a write in flight.
C21_InFlightWriteLeavesGesturesAlone ==
    [][/\ wbOp' \in {"WriteOk", "WriteFailed"} =>
             \A i \in 1..Len(writes) :
                (writes' = RemoveAt(writes, i) /\ drawing # None
                   /\ drawing[1].id # writes[i].id)
                   => drawing' = drawing /\ isDrawing' = isDrawing
       /\ wbOp' = "Up" =>
             \A i \in 1..Len(writes) : writes[i].id # drawing[1].id]_vars

\* The shapes that exist: the one in progress, those being written and those
\* stored.
Shapes ==
    (IF drawing # None THEN {drawing[1]} ELSE {})
       \cup {writes[i].el : i \in 1..Len(writes)}
       \cup remote

\* C22: every shape carries a non-null owning user identifier, its identifier
\* is made of that user identifier and its creation time, and shapes of
\* different users never share an identifier.
C22_ShapesCarryUserId ==
    /\ \A s \in Shapes :
          /\ s.userId # None
          /\ s.id.uid = s.userId
    /\ \A s, t \in Shapes : s.id = t.id => s.userId = t.userId

====
